---- MODULE Spec2Model ----
(***************************************************************************)
(* Model of the zdns response cache (package cache), its background task   *)
(* queue and its write-through backend, together with the helpers of       *)
(* package dnsutil the cache relies on.                                    *)
(***************************************************************************)
EXTENDS Integers, Sequences, FiniteSets, TLC

(* ------------------------------ bounds --------------------------------- *)
MaxCap == 2        \* largest cache capacity explored
NumKeys == 3       \* number of distinct fingerprints
MaxTime == 2       \* the clock runs from 0 to MaxTime seconds
MaxLoad == 3       \* longest persisted sequence handed to the constructor
QueueCap == 1      \* capacity of the task channel (1024 in the program)
MaxSenders == 1    \* readers that may be blocked in a channel send at once
MaxTrace == 3      \* longest recorded run of Set calls in the Set-only runs
MaxAddr == 3       \* largest number of upstream addresses of a Client
MaxFilters == 2    \* largest number of hosts filters in the server's Config
MaxClose == 1      \* Close calls made on one Server, by any caller

(* -------------------------- DNS messages -------------------------------- *)
RcodeSuccess == 0
RcodeServerFailure == 2
RcodeNameError == 3
TypeA == 1
TypeNS == 2
TypeOPT == 41
TypeAAAA == 28
HijackZero == 0
HijackEmpty == 1
HijackHosts == 2
DoneCap == 1       \* make(chan bool, 1)
SignalCap == 1     \* make(chan os.Signal, 1)
MaxTTL == 2147483647

RR(t, ttl) == [rrtype |-> t, ttl |-> ttl]

\* A reply is its rcode and the three record sections; id tells replies apart.
MsgA == [id |-> "a", rcode |-> RcodeSuccess, answer |-> <<RR(TypeA, 1)>>,
         ns |-> <<>>, extra |-> <<RR(TypeOPT, 0)>>]
MsgB == [id |-> "b", rcode |-> RcodeNameError, answer |-> <<>>,
         ns |-> <<RR(TypeNS, 2), RR(TypeNS, 1)>>, extra |-> <<>>]
MsgZero == [id |-> "z", rcode |-> RcodeSuccess, answer |-> <<RR(TypeA, 1), RR(TypeA, 0)>>,
            ns |-> <<>>, extra |-> <<>>]
MsgFail == [id |-> "f", rcode |-> RcodeServerFailure, answer |-> <<>>,
            ns |-> <<>>, extra |-> <<RR(TypeA, 1)>>]
NilMsg == [id |-> "nil"]

Msgs == {MsgA, MsgB, MsgZero, MsgFail}
\* Replies the resolver gives to a refresh: one cacheable, one not.
Replies == {MsgB, MsgZero}
Keys == 1..NumKeys

min(x, y) == IF x < y THEN x ELSE y

RECURSIVE minOver(_, _)
minOver(rrs, ttl) ==
  IF rrs = <<>> THEN ttl ELSE minOver(Tail(rrs), min(Head(rrs).ttl, ttl))

RECURSIVE minOverExtra(_, _)
minOverExtra(rrs, ttl) ==
  IF rrs = <<>> THEN ttl
  ELSE IF Head(rrs).rrtype = TypeOPT THEN minOverExtra(Tail(rrs), ttl)
  ELSE minOverExtra(Tail(rrs), min(Head(rrs).ttl, ttl))

\* Lowest TTL of answer, authority and additional sections, in seconds.
MinTTL(msg) == minOverExtra(msg.extra, minOver(msg.ns, minOver(msg.answer, MaxTTL)))

\* mutant of canCache: the rcode is not looked at
canCache_anyRcode(msg) == MinTTL(msg) # 0

canCache(msg) ==
  IF MinTTL(msg) = 0 THEN FALSE
  ELSE msg.rcode = RcodeSuccess \/ msg.rcode = RcodeNameError

(* ------------------------- cache data structure ------------------------- *)
Value(key, createdAt, msg) == [Key |-> key, CreatedAt |-> createdAt, msg |-> msg]

EmptyMap == [k \in {} |-> NilMsg]
mapDelete(m, key) == [k \in DOMAIN m \ {key} |-> m[k]]
mapPut(m, key, v) == [k \in DOMAIN m \cup {key} |-> IF k = key THEN v ELSE m[k]]

EvictCall(key) == [fn |-> "Evict", key |-> key, value |-> NilMsg]
SetCall(key, value) == [fn |-> "Set", key |-> key, value |-> value]
ResetCall == [fn |-> "Reset", key |-> 0, value |-> NilMsg]
ReadCall == [fn |-> "Read", key |-> 0, value |-> NilMsg]

Range(s) == {s[i] : i \in 1..Len(s)}

removeKey(ks, key) == SelectSeq(ks, LAMBDA k : k # key)

\* mutants of appendKey: no removal of the earlier occurrence; no move to the tail
appendKey_keepOld(ks, key) == Append(ks, key)
appendKey_inPlace(ks, key) == IF key \in Range(ks) THEN ks ELSE Append(ks, key)

appendKey(ks, key) == Append(removeKey(ks, key), key)

\* mutant of isExpired: the instant created_at + min_ttl counts as expired
isExpired_atExpiry(v, t) == t >= v.CreatedAt + MinTTL(v.msg)

isExpired(v, t) == t > v.CreatedAt + MinTTL(v.msg)

\* The in-memory part of a Cache together with the calls it made on c.backend.
NewMem == [values |-> EmptyMap, keys |-> <<>>, calls |-> <<>>, ok |-> FALSE]

\* mutant of isFull: the capacity check never fires
isFull_never(c, cap) == FALSE

isFull(c, cap) == Cardinality(DOMAIN c.values) = cap /\ cap > 0

\* mutants of evictHead: the newest entry is dropped; the backend is not told
evictHead_newest(c) ==
  [c EXCEPT !.values = mapDelete(c.values, c.keys[Len(c.keys)]),
            !.keys = SubSeq(c.keys, 1, Len(c.keys) - 1),
            !.calls = Append(c.calls, EvictCall(c.keys[Len(c.keys)]))]
evictHead_silent(c) ==
  [c EXCEPT !.values = mapDelete(c.values, Head(c.keys)), !.keys = Tail(c.keys)]

evictHead(c) ==
  [c EXCEPT !.values = mapDelete(c.values, Head(c.keys)),
            !.keys = Tail(c.keys),
            !.calls = Append(c.calls, EvictCall(Head(c.keys)))]

store(c, value) ==
  [values |-> mapPut(c.values, value.Key, value),
   keys |-> appendKey(c.keys, value.Key),
   calls |-> Append(c.calls, SetCall(value.Key, value)),
   ok |-> TRUE]

setValue(c, cap, value) ==
  IF cap = 0 \/ ~canCache(value.msg) THEN [c EXCEPT !.ok = FALSE]
  ELSE store(IF isFull(c, cap) THEN evictHead(c) ELSE c, value)

set(c, cap, key, msg, t) == setValue(c, cap, Value(key, t, msg))

\* mutant of evict: the ordering log keeps the key
evict_keepKey(c, key) ==
  [c EXCEPT !.values = mapDelete(c.values, key),
            !.calls = Append(c.calls, EvictCall(key))]

evict(c, key) ==
  [c EXCEPT !.values = mapDelete(c.values, key),
            !.keys = removeKey(c.keys, key),
            !.calls = Append(c.calls, EvictCall(key))]

reset(c) ==
  [c EXCEPT !.values = EmptyMap, !.keys = <<>>, !.calls = Append(c.calls, ResetCall)]

\* mutant of refreshSet: the creation time of the stale entry is kept
refreshSet_oldTime(c, cap, key, r, t) ==
  LET old == IF key \in DOMAIN c.values THEN c.values[key].CreatedAt ELSE t
      c1 == set(c, cap, key, r, old)
  IN IF ~c1.ok THEN evict(c1, key) ELSE c1

\* refresh, from the point where the exchange succeeded and the lock is held
refreshSet(c, cap, key, r, t) ==
  LET c1 == set(c, cap, key, r, t)
  IN IF ~c1.ok THEN evict(c1, key) ELSE c1

RECURSIVE List(_, _, _)
List(vals, ks, n) ==
  IF n = 0 \/ ks = <<>> THEN <<>>
  ELSE <<vals[ks[Len(ks)]]>> \o List(vals, SubSeq(ks, 1, Len(ks) - 1), n - 1)

(* --------------------------- recording backend -------------------------- *)
RECURSIVE backendApply(_, _)
backendApply(p, cs) ==
  IF cs = <<>> THEN p
  ELSE LET c == Head(cs)
           p1 == IF c.fn = "Set"
                   THEN Append(SelectSeq(p, LAMBDA v : v.Key # c.key), c.value)
                 ELSE IF c.fn = "Evict" THEN SelectSeq(p, LAMBDA v : v.Key # c.key)
                 ELSE IF c.fn = "Reset" THEN <<>>
                 ELSE p
       IN backendApply(p1, Tail(cs))

(* ------------------------------ construction ---------------------------- *)
RECURSIVE loadValues(_, _, _)
loadValues(c, cap, vs) ==
  IF vs = <<>> THEN c ELSE loadValues(setValue(c, cap, Head(vs)), cap, Tail(vs))

RECURSIVE evictCalls(_)
evictCalls(vs) ==
  IF vs = <<>> THEN <<>> ELSE <<EvictCall(Head(vs).Key)>> \o evictCalls(Tail(vs))

loadSplit(cap, V) == IF cap < Len(V) THEN cap ELSE 0

\* mutant of load: with capacity 0 the supplied backend is attached all the same
load_attachZero(cap, V) ==
  IF cap = 0
    THEN [mem |-> NewMem, calls |-> <<ResetCall>>, attached |-> TRUE]
  ELSE LET n == IF cap < Len(V) THEN cap ELSE 0
           c == loadValues(NewMem, cap, SubSeq(V, n + 1, Len(V)))
           ev == IF cap < Len(V) THEN evictCalls(SubSeq(V, 1, n)) ELSE <<>>
       IN [mem |-> c, calls |-> <<ReadCall>> \o ev, attached |-> TRUE]

\* load: the memory it builds, the calls the supplied backend receives and
\* whether the supplied backend ends up attached as c.backend.
load(cap, V) ==
  IF cap = 0
    THEN [mem |-> NewMem, calls |-> <<ResetCall>>, attached |-> FALSE]
  ELSE LET n == loadSplit(cap, V)
           c == loadValues(NewMem, cap, SubSeq(V, n + 1, Len(V)))
           ev == IF cap < Len(V) THEN evictCalls(SubSeq(V, 1, n)) ELSE <<>>
       IN [mem |-> c, calls |-> <<ReadCall>> \o ev, attached |-> TRUE]

newCapacity(cap) == IF cap < 0 THEN 0 ELSE cap

NoDup(s) == \A i, j \in 1..Len(s) : i # j => s[i] # s[j]

\* Persisted sequences a backend can hold: one entry per key, oldest first.
\* Fingerprints are interchangeable, so the entries are numbered in order.
PersistedSeqs ==
  {[i \in 1..n |-> Value(i, 0, MsgA)] : n \in 0..min(MaxLoad, NumKeys)}

(* --------------------------------- state -------------------------------- *)
VARIABLES
  capacity,   \* c.capacity
  prefetch,   \* c.client != nil
  attached,   \* c.backend is the backend handed to the constructor
  values,     \* c.values
  keys,       \* c.keys
  persisted,  \* contents of the supplied backend, oldest first
  queue,      \* c.queue
  worker,     \* position of readQueue and the task it is running
  sending,    \* getValue calls blocked in enqueue, holding the read lock
  wg,         \* c.wg counter
  now,        \* c.now()
  last,       \* the call that returned in the last step and its result
  calls,      \* calls received by the supplied backend in the last step
  trace,      \* Set calls made so far (Set-only runs)
  blog,       \* backend calls received so far (Set-only runs)
  mx,         \* the multiExchange call in progress and its goroutines
  srv         \* the Server: its fields, its goroutines and the callers of Close

vars == <<capacity, prefetch, attached, values, keys, persisted, queue, worker,
          sending, wg, now, last, calls, trace, blog, mx, srv>>

\* What no operation of the cache changes.
config == <<capacity, prefetch, attached, mx, srv>>
hist == <<trace, blog>>

Idle == [pc |-> "idle", task |-> NilMsg, reply |-> NilMsg]
NoCall == [op |-> "none"]

EvictTask(key) == [op |-> "evict", key |-> key, msg |-> NilMsg]
RefreshTask(key, msg) == [op |-> "refresh", key |-> key, msg |-> msg]

Mem == [values |-> values, keys |-> keys, calls |-> <<>>, ok |-> FALSE]

NoReq == [Type |-> 0, Name |-> <<>>]
NoReply == [kind |-> "nil"]

\* No Server has been built.
NoServer == [interval |-> 0, hijackMode |-> HijackZero, started |-> FALSE,
             hosts |-> <<>>, done |-> 0, signal |-> <<>>,
             rs |-> "none", rh |-> "none", cl |-> "none",
             closes |-> 0, closed |-> FALSE, req |-> NoReq, out |-> NoReply]

\* No multiExchange call has been made.
MxIdle == [pc |-> "idle", n |-> 0, st |-> <<>>, responses |-> <<>>, errs |-> <<>>,
           wg |-> 0, closer |-> "wait", finished |-> <<>>,
           ret |-> [reply |-> 0, err |-> 0]]

\* newCache
NewCache(cap, pf, V) ==
  LET l == load(newCapacity(cap), V)
  IN /\ capacity = newCapacity(cap)
     /\ prefetch = pf
     /\ attached = l.attached
     /\ values = l.mem.values
     /\ keys = l.mem.keys
     /\ persisted = backendApply(V, l.calls)
     /\ calls = l.calls
     /\ queue = <<>>
     /\ worker = Idle
     /\ sending = <<>>
     /\ wg = 0
     /\ now = 0
     /\ last = NoCall
     /\ mx = MxIdle
     /\ srv = NoServer

InitWith(caps, Vs) ==
  \E cap \in caps, pf \in BOOLEAN, V \in Vs :
    /\ NewCache(cap, pf, V)
    /\ trace = <<>>
    /\ blog = <<>>

Init == InitWith(-1..MaxCap, PersistedSeqs)

\* The write lock can be taken only when no reader holds the read lock.
NoReader == sending = <<>>

\* Effect of a mutation done under the write lock.
Commit(c) ==
  /\ values' = c.values
  /\ keys' = c.keys
  /\ calls' = IF attached THEN c.calls ELSE <<>>
  /\ persisted' = IF attached THEN backendApply(persisted, c.calls) ELSE persisted

SetOp(key, msg) ==
  /\ NoReader
  /\ LET c == set(Mem, capacity, key, msg, now)
     IN /\ Commit(c)
        /\ last' = [op |-> "Set", key |-> key, ok |-> c.ok]
  /\ UNCHANGED <<config, queue, worker, sending, wg, now>>

ResetOp ==
  /\ NoReader
  /\ Commit(reset(Mem))
  /\ last' = [op |-> "Reset"]
  /\ UNCHANGED <<config, queue, worker, sending, wg, now>>

GetResult(key, hit, msg) == [op |-> "Get", key |-> key, hit |-> hit, msg |-> msg]

\* enqueue, called with the read lock held: wg.Add(1), then the channel send,
\* which blocks while the channel is full.
Enqueue(task, ret) ==
  /\ wg' = wg + 1
  /\ IF Len(queue) < QueueCap
       THEN queue' = Append(queue, task) /\ last' = ret /\ UNCHANGED sending
       ELSE sending' = Append(sending, [task |-> task, ret |-> ret])
            /\ last' = NoCall /\ UNCHANGED queue

GetOp(key) ==
  /\ Len(sending) < MaxSenders
  /\ IF key \notin DOMAIN values
       THEN last' = GetResult(key, FALSE, NilMsg) /\ UNCHANGED <<queue, sending, wg>>
     ELSE IF isExpired(values[key], now)
       THEN IF ~prefetch
              THEN Enqueue(EvictTask(key), GetResult(key, FALSE, NilMsg))
              ELSE Enqueue(RefreshTask(key, values[key].msg),
                           GetResult(key, TRUE, values[key].msg))
     ELSE last' = GetResult(key, TRUE, values[key].msg) /\ UNCHANGED <<queue, sending, wg>>
  /\ calls' = <<>>
  /\ UNCHANGED <<config, values, keys, persisted, worker, now>>

\* A blocked channel send completes and getValue returns.
SendDone ==
  /\ sending # <<>>
  /\ Len(queue) < QueueCap
  /\ queue' = Append(queue, Head(sending).task)
  /\ last' = Head(sending).ret
  /\ sending' = Tail(sending)
  /\ calls' = <<>>
  /\ UNCHANGED <<config, values, keys, persisted, worker, wg, now>>

\* readQueue receives the next task and starts it.
WorkerTake ==
  /\ worker.pc = "idle"
  /\ queue # <<>>
  /\ worker' = [pc |-> IF Head(queue).op = "evict" THEN "lock" ELSE "exchange",
                task |-> Head(queue), reply |-> NilMsg]
  /\ queue' = Tail(queue)
  /\ calls' = <<>>
  /\ UNCHANGED <<config, values, keys, persisted, sending, wg, now>>
  /\ last' = NoCall

\* refresh: c.client.Exchange fails, the task ends without touching the cache.
WorkerExchangeFail ==
  /\ worker.pc = "exchange"
  /\ worker' = Idle
  /\ wg' = wg - 1
  /\ calls' = <<>>
  /\ UNCHANGED <<config, values, keys, persisted, queue, sending, now>>
  /\ last' = NoCall

\* refresh: c.client.Exchange returns reply r.
WorkerExchangeOk(r) ==
  /\ worker.pc = "exchange"
  /\ worker' = [worker EXCEPT !.pc = "lock", !.reply = r]
  /\ calls' = <<>>
  /\ UNCHANGED <<config, values, keys, persisted, queue, sending, wg, now>>
  /\ last' = NoCall

\* evictWithLock, or the locked part of refresh; then wg.Done().
WorkerRun ==
  /\ worker.pc = "lock"
  /\ NoReader
  /\ Commit(IF worker.task.op = "evict"
              THEN evict(Mem, worker.task.key)
              ELSE refreshSet(Mem, capacity, worker.task.key, worker.reply, now))
  /\ worker' = Idle
  /\ wg' = wg - 1
  /\ UNCHANGED <<config, queue, sending, now>>
  /\ last' = NoCall

Tick ==
  /\ now < MaxTime
  /\ now' = now + 1
  /\ calls' = <<>>
  /\ UNCHANGED <<config, values, keys, persisted, queue, worker, sending, wg>>
  /\ last' = NoCall

\* Close: c.wg.Wait() returns once the counter is zero.
CloseOp ==
  /\ wg = 0
  /\ last' = [op |-> "Close"]
  /\ calls' = <<>>
  /\ UNCHANGED <<config, values, keys, persisted, queue, worker, sending, wg, now>>

Set(key, msg) == SetOp(key, msg) /\ UNCHANGED hist
Get(key) == GetOp(key) /\ UNCHANGED hist
Reset == ResetOp /\ UNCHANGED hist
Send == SendDone /\ UNCHANGED hist
Take == WorkerTake /\ UNCHANGED hist
ExchangeFail == WorkerExchangeFail /\ UNCHANGED hist
ExchangeOk(r) == WorkerExchangeOk(r) /\ UNCHANGED hist
Run == WorkerRun /\ UNCHANGED hist
Clock == Tick /\ UNCHANGED hist
Close == CloseOp /\ UNCHANGED hist

\* The steps by which enqueued tasks get sent, received and executed.
Drain ==
  \/ Send
  \/ Take
  \/ ExchangeFail
  \/ \E r \in Replies : ExchangeOk(r)
  \/ Run

Next ==
  \/ \E k \in Keys, m \in Msgs : Set(k, m)
  \/ \E k \in Keys : Get(k)
  \/ Reset
  \/ Send
  \/ Take
  \/ ExchangeFail
  \/ \E r \in Replies : ExchangeOk(r)
  \/ Run
  \/ Clock
  \/ Close

Spec == Init /\ [][Next]_vars

(* ------------- runs of Set and Get on a freshly built empty cache -------- *)
Project(cs) == [i \in 1..Len(cs) |-> <<cs[i].fn, cs[i].key>>]

SetT(key, msg) ==
  /\ Len(trace) < MaxTrace
  /\ SetOp(key, msg)
  /\ trace' = Append(trace, [key |-> key, msg |-> msg])
  /\ blog' = blog \o Project(calls')

GetT(key) == GetOp(key) /\ UNCHANGED hist

SetsMaxCap == MaxCap + 1

InitSets == InitWith(1..SetsMaxCap, {<<>>})

NextSets ==
  \/ \E k \in Keys, m \in Msgs : SetT(k, m)
  \/ \E k \in Keys : GetT(k)

SpecSets == InitSets /\ [][NextSets]_vars

(* ------------- runs that remember the persisted sequence loaded ---------- *)
InitLoad ==
  \E cap \in 0..MaxCap, pf \in BOOLEAN, V \in PersistedSeqs :
    /\ NewCache(cap, pf, V)
    /\ trace = V
    /\ blog = <<>>

SpecLoad == InitLoad /\ [][Next]_vars

(* ------- runs that remember the Sets made while a refresh is pending ------ *)
\* blog holds the key of the task enqueued while no other task was
\* outstanding (the next one the worker finishes), and holds it twice once the
\* worker has run it; trace holds the keys stored by Set since that task was
\* enqueued, oldest first, each key at the place of its latest Set.
GetR(key) ==
  /\ GetOp(key)
  /\ IF wg = 0 /\ wg' = 1
       THEN blog' = <<key>> /\ trace' = <<>>
       ELSE UNCHANGED hist

SetR(key, msg) ==
  /\ SetOp(key, msg)
  /\ blog' = blog
  /\ trace' = IF Len(blog) = 1 /\ last'.ok THEN appendKey(trace, key) ELSE trace

ResetR == ResetOp /\ blog' = blog /\ trace' = <<>>

ExchangeFailR ==
  /\ WorkerExchangeFail
  /\ IF Len(blog) = 1 THEN blog' = <<>> /\ trace' = <<>> ELSE UNCHANGED hist

RunR ==
  /\ WorkerRun
  /\ trace' = trace
  /\ blog' = IF Len(blog) = 1 THEN <<blog[1], blog[1]>> ELSE blog

InitRefresh == InitWith({SetsMaxCap}, {<<>>}) /\ prefetch

\* One cacheable and one non-cacheable message for Set; the replies differ
\* from both.
SetMsgs == {MsgA, MsgFail}

NextRefresh ==
  \/ \E k \in Keys, m \in SetMsgs : SetR(k, m)
  \/ \E k \in Keys : GetR(k)
  \/ ResetR
  \/ Send
  \/ Take
  \/ ExchangeFailR
  \/ \E r \in Replies : ExchangeOk(r)
  \/ RunR
  \/ Clock

SpecRefresh == InitRefresh /\ [][NextRefresh]_vars

(* ------------------------------ multiExchange ---------------------------- *)
\* Upstreams are numbered 1..n; the reply of upstream i is i, its error is i,
\* the error "no addresses to query" is NoAddresses, nil is 0.
NoAddresses == -1

cache == <<capacity, prefetch, attached, values, keys, persisted, queue, worker,
           sending, wg, now, last, calls, trace, blog>>

resolver == <<cache, srv>>

\* A receive takes the oldest element of the channel.
receive_newest(ch) == ch[Len(ch)]

receive(ch) == Head(ch)

\* multiExchange up to the start of the goroutines.
MxStart(n) ==
  /\ mx.pc = "idle"
  /\ mx' = IF n = 0
             THEN [mx EXCEPT !.pc = "done", !.ret = [reply |-> 0, err |-> NoAddresses]]
             ELSE [mx EXCEPT !.pc = "range", !.n = n, !.wg = n,
                             !.st = [i \in 1..n |-> "run"]]
  /\ UNCHANGED resolver

\* The goroutine of upstream i: Exchange succeeds, the reply is sent, wg.Done.
UpstreamOk(i) ==
  /\ i \in 1..mx.n
  /\ mx.st[i] = "run"
  /\ mx' = [mx EXCEPT !.st[i] = "ok", !.responses = Append(@, i), !.wg = @ - 1,
                      !.finished = Append(@, [addr |-> i, ok |-> TRUE])]
  /\ UNCHANGED resolver

\* The goroutine of upstream i: Exchange fails, the error is sent, wg.Done.
UpstreamFail(i) ==
  /\ i \in 1..mx.n
  /\ mx.st[i] = "run"
  /\ mx' = [mx EXCEPT !.st[i] = "err", !.errs = Append(@, i), !.wg = @ - 1,
                      !.finished = Append(@, [addr |-> i, ok |-> FALSE])]
  /\ UNCHANGED resolver

\* The closing goroutine: wg.Wait() returns, close(errs).
CloseErrs ==
  /\ mx.pc # "idle" /\ mx.n > 0
  /\ mx.closer = "wait" /\ mx.wg = 0
  /\ mx' = [mx EXCEPT !.closer = "errs"]
  /\ UNCHANGED resolver

\* The closing goroutine: close(responses).
CloseResponses ==
  /\ mx.closer = "errs"
  /\ mx' = [mx EXCEPT !.closer = "closed"]
  /\ UNCHANGED resolver

\* for rr := range responses { return rr, nil }
RangeReceive ==
  /\ mx.pc = "range"
  /\ mx.responses # <<>>
  /\ mx' = [mx EXCEPT !.pc = "done", !.responses = Tail(@),
                      !.ret = [reply |-> receive(mx.responses), err |-> 0]]
  /\ UNCHANGED resolver

\* responses is closed and empty: return nil, <-errs. errs was closed before
\* responses, so the receive returns its oldest element, or nil if it is empty.
RangeEnd ==
  /\ mx.pc = "range"
  /\ mx.responses = <<>> /\ mx.closer = "closed"
  /\ mx' = [mx EXCEPT !.pc = "done", !.errs = IF @ = <<>> THEN @ ELSE Tail(@),
                      !.ret = [reply |-> 0,
                               err |-> IF mx.errs = <<>> THEN 0 ELSE receive(mx.errs)]]
  /\ UNCHANGED resolver

InitMx == InitWith({0}, {<<>>}) /\ ~prefetch

NextMx ==
  \/ \E n \in 0..MaxAddr : MxStart(n)
  \/ \E i \in 1..MaxAddr : UpstreamOk(i)
  \/ \E i \in 1..MaxAddr : UpstreamFail(i)
  \/ CloseErrs
  \/ CloseResponses
  \/ RangeReceive
  \/ RangeEnd

SpecMx == InitMx /\ [][NextMx]_vars

(* --------------------------------- Server -------------------------------- *)
\* Names are sequences of characters; addresses are records of their family.
IPv4zero == [fam |-> 4, addr |-> "0.0.0.0"]
IPv6zero == [fam |-> 6, addr |-> "::"]
Ip4 == [fam |-> 4, addr |-> "1.2.3.4"]
Ip6 == [fam |-> 6, addr |-> "2001:db8::1"]

HostNames == {<<"a">>, <<"a", ".">>}
IpLists == {<<Ip4>>, <<Ip6>>}
HostMaps == UNION {[H -> IpLists] : H \in SUBSET HostNames}
NoHosts == [h \in {} |-> <<>>]

QueryNames == {<<>>, <<"a">>, <<"a", ".">>, <<"a", ".", ".">>, <<"b", ".">>}
QueryTypes == {TypeA, TypeAAAA, TypeNS}
Requests == [Type : QueryTypes, Name : QueryNames]
Signals == {"SIGHUP", "SIGTERM", "SIGINT", "SIGUSR1"}

\* A filter of the Config with the hosts read for it; ok is false when
\* readHosts fails.
Filters ==
  [Reject : BOOLEAN, hosts : HostMaps, ok : {TRUE}]
    \cup {[Reject |-> TRUE, hosts |-> NoHosts, ok |-> FALSE]}
FilterLists == UNION {[1..n -> Filters] : n \in 0..MaxFilters}

nonFqdn_keepDot(s) == s

nonFqdn(s) ==
  LET sz == Len(s)
  IN IF sz > 0 /\ s[sz] = "." THEN SubSeq(s, 1, sz - 1) ELSE s

ReplyA(name, addrs) == [kind |-> "A", name |-> name, addrs |-> addrs]
ReplyAAAA(name, addrs) == [kind |-> "AAAA", name |-> name, addrs |-> addrs]
EmptyReply == [kind |-> "empty"]

hijack(r, hosts, hijackMode) ==
  IF r.Type # TypeA /\ r.Type # TypeAAAA THEN NoReply
  ELSE IF nonFqdn(r.Name) \notin DOMAIN hosts THEN NoReply
  ELSE LET ipAddrs == hosts[nonFqdn(r.Name)]
           ipv4Addr == SelectSeq(ipAddrs, LAMBDA ip : ip.fam = 4)
           ipv6Addr == SelectSeq(ipAddrs, LAMBDA ip : ip.fam # 4)
       IN CASE hijackMode = HijackZero ->
                 IF r.Type = TypeA THEN ReplyA(r.Name, <<IPv4zero>>)
                                   ELSE ReplyAAAA(r.Name, <<IPv6zero>>)
            [] hijackMode = HijackEmpty -> EmptyReply
            [] hijackMode = HijackHosts ->
                 IF r.Type = TypeA THEN ReplyA(r.Name, ipv4Addr)
                                   ELSE ReplyAAAA(r.Name, ipv6Addr)
            [] OTHER -> NoReply

\* The map loadHosts builds from the filters, in their order.
RECURSIVE loadFilters(_, _)
loadFilters(hs, fs) ==
  IF fs = <<>> THEN hs
  ELSE LET f == Head(fs)
           hs1 == IF ~f.ok THEN hs
                  ELSE IF f.Reject
                    THEN [h \in DOMAIN hs \cup DOMAIN f.hosts |->
                            IF h \in DOMAIN f.hosts THEN f.hosts[h] ELSE hs[h]]
                    ELSE [h \in DOMAIN hs \ DOMAIN f.hosts |-> hs[h]]
       IN loadFilters(hs1, Tail(fs))

loadHosts(fs) == loadFilters(NoHosts, fs)

\* Every step of the server other than hijack forgets the last request.
Srv(fields) == srv' = [fields EXCEPT !.req = NoReq, !.out = NoReply]

\* NewServer, up to its return.
NewServer(interval, hijackMode, fs) ==
  /\ srv = NoServer
  /\ Srv([srv EXCEPT !.interval = interval, !.hijackMode = hijackMode,
                     !.hosts = loadHosts(fs), !.started = TRUE,
                     !.rs = "select",
                     !.rh = IF interval > 0 THEN "select" ELSE "none",
                     !.cl = "idle"])
  /\ UNCHANGED <<cache, mx>>

HijackOp(r) ==
  /\ srv.started
  /\ srv' = [srv EXCEPT !.req = r, !.out = hijack(r, srv.hosts, srv.hijackMode)]
  /\ UNCHANGED <<cache, mx>>

\* The runtime delivers a signal; it is dropped when the channel is full.
Signal(sig) ==
  /\ srv.rs \notin {"none", "stopped"}
  /\ Len(srv.signal) < SignalCap
  /\ sig \in {"SIGTERM", "SIGINT"} => srv.closes < MaxClose
  /\ Srv([srv EXCEPT !.signal = Append(@, sig),
                     !.closes = IF sig \in {"SIGTERM", "SIGINT"} THEN @ + 1 ELSE @])
  /\ UNCHANGED <<cache, mx>>

\* readSignal: case <-s.done
ReadSignalDone ==
  /\ srv.rs = "select"
  /\ srv.done > 0
  /\ Srv([srv EXCEPT !.done = @ - 1, !.rs = "stopped"])
  /\ UNCHANGED <<cache, mx>>

\* readSignal: case sig := <-s.signal, SIGHUP
ReadSignalHup(fs) ==
  /\ srv.rs = "select"
  /\ srv.signal # <<>> /\ Head(srv.signal) = "SIGHUP"
  /\ Srv([srv EXCEPT !.signal = Tail(@), !.hosts = loadHosts(fs)])
  /\ UNCHANGED <<cache, mx>>

\* readSignal: case sig := <-s.signal, any other signal; SIGTERM and SIGINT
\* enter Close.
ReadSignalSig ==
  /\ srv.rs = "select"
  /\ srv.signal # <<>> /\ Head(srv.signal) # "SIGHUP"
  /\ Srv([srv EXCEPT !.signal = Tail(@),
                     !.rs = IF Head(srv.signal) \in {"SIGTERM", "SIGINT"} /\ srv.started
                              THEN "close1" ELSE @])
  /\ UNCHANGED <<cache, mx>>

\* reloadHosts: case <-s.done
ReloadDone ==
  /\ srv.rh = "select"
  /\ srv.done > 0
  /\ Srv([srv EXCEPT !.done = @ - 1, !.rh = "stopped"])
  /\ UNCHANGED <<cache, mx>>

\* reloadHosts: case <-s.ticker.C
ReloadTick(fs) ==
  /\ srv.rh = "select"
  /\ Srv([srv EXCEPT !.hosts = loadHosts(fs)])
  /\ UNCHANGED <<cache, mx>>

\* Close called from outside the server's goroutines.
CloseCall ==
  /\ srv.cl = "idle"
  /\ srv.closes < MaxClose
  /\ Srv([srv EXCEPT !.closes = @ + 1,
                     !.cl = IF srv.started THEN "close1" ELSE "returned"])
  /\ UNCHANGED <<cache, mx>>

Callers == {"rs", "cl"}

\* Close: the first s.done <- true
CloseSend1(c) ==
  /\ srv[c] = "close1"
  /\ srv.done < DoneCap
  /\ Srv([srv EXCEPT !.done = @ + 1, ![c] = "close2"])
  /\ UNCHANGED <<cache, mx>>

\* Close: the second s.done <- true
CloseSend2(c) ==
  /\ srv[c] = "close2"
  /\ srv.done < DoneCap
  /\ Srv([srv EXCEPT !.done = @ + 1, ![c] = "proxy"])
  /\ UNCHANGED <<cache, mx>>

\* Close: s.proxy.Close() returns, and Close with it.
CloseReturn(c) ==
  /\ srv[c] = "proxy"
  /\ Srv([srv EXCEPT !.closed = TRUE,
                     ![c] = IF c = "rs" THEN "select" ELSE "returned"])
  /\ UNCHANGED <<cache, mx>>

\* The steps by which a Close proceeds and the goroutines stop.
Shutdown ==
  \/ \E c \in Callers : CloseSend1(c)
  \/ \E c \in Callers : CloseSend2(c)
  \/ \E c \in Callers : CloseReturn(c)
  \/ ReadSignalDone
  \/ ReloadDone

InitServer == InitWith({0}, {<<>>}) /\ ~prefetch

NextServer ==
  \/ \E interval \in {0, 1}, hijackMode \in {HijackZero, HijackEmpty, HijackHosts},
        fs \in FilterLists : NewServer(interval, hijackMode, fs)
  \/ \E r \in Requests : HijackOp(r)
  \/ \E sig \in Signals : Signal(sig)
  \/ ReadSignalDone
  \/ \E fs \in FilterLists : ReadSignalHup(fs)
  \/ ReadSignalSig
  \/ ReloadDone
  \/ \E fs \in FilterLists : ReloadTick(fs)
  \/ CloseCall
  \/ \E c \in Callers : CloseSend1(c)
  \/ \E c \in Callers : CloseSend2(c)
  \/ \E c \in Callers : CloseReturn(c)

SpecServer == InitServer /\ [][NextServer]_vars

(* ------------------------------ properties ------------------------------ *)
TypeOK ==
  /\ capacity \in 0..MaxCap
  /\ DOMAIN values \subseteq Keys
  /\ wg = Len(queue) + Len(sending) + (IF worker.pc = "idle" THEN 0 ELSE 1)

Size == Cardinality(DOMAIN values)
Stored(k) == k \in DOMAIN values
HasCall(cs, fn) == \E i \in 1..Len(cs) : cs[i].fn = fn
IndexOf(ks, k) == CHOOSE i \in 1..Len(ks) : ks[i] = k

\* The messages the cache must refuse: minimum TTL 0, or an rcode other than
\* NOERROR and NXDOMAIN.
NonCacheable == {MsgZero, MsgFail}
Cacheable == {MsgA, MsgB}

\* C1: with capacity C > 0 the number of stored entries never exceeds C, in
\* the state built by the initial load and after every Set, Get, Reset and
\* background evict or refresh.
C1_Capacity == capacity > 0 => Size <= capacity

C1_Witness ==
  /\ capacity > 0
  /\ Size = capacity
  /\ last.op = "Set" /\ last.ok
  /\ HasCall(calls, "Evict")

\* C2: the ordering log keys has no duplicate, holds exactly the keys of
\* values, and is as long as values has entries.
C2_KeysMatchValues ==
  /\ NoDup(keys)
  /\ Range(keys) = DOMAIN values
  /\ Len(keys) = Size

C2_Witness ==
  /\ Len(keys) = 2
  /\ last.op = "Set" /\ last.ok
  /\ keys[2] = last.key
  /\ values[last.key].CreatedAt > values[keys[1]].CreatedAt
  /\ calls = <<SetCall(last.key, values[last.key])>>

DistinctCacheable(tr) ==
  /\ \A i, j \in 1..Len(tr) : i # j => tr[i].key # tr[j].key
  /\ \A i \in 1..Len(tr) : tr[i].msg \in Cacheable

FifoRun == capacity > 0 /\ Len(trace) = capacity + 1 /\ DistinctCacheable(trace)

\* C3: a Set of a new key that finds the cache full removes exactly the entry
\* at the head of keys; after Set of distinct cacheable keys k1..k(C+1) on an
\* empty cache of capacity C, k1 is gone and Get(k1) misses while every later
\* key is stored and Get of it hits.
C3_Fifo ==
  /\ [][\A k \in Keys, m \in Cacheable :
          (~Stored(k) /\ Size = capacity /\ SetT(k, m))
            => DOMAIN values' = (DOMAIN values \ {Head(keys)}) \cup {k}]_vars
  /\ [](FifoRun =>
          /\ ~Stored(trace[1].key)
          /\ \A i \in 2..Len(trace) : Stored(trace[i].key)
          /\ (last.op = "Get" /\ last.key \in {trace[i].key : i \in 1..Len(trace)})
               => (last.hit <=> last.key # trace[1].key))

C3_Witness ==
  /\ FifoRun
  /\ capacity = 2
  /\ last.op = "Get" /\ last.key = trace[1].key /\ ~last.hit

MovedToTail(k, m) ==
  /\ keys'[Len(keys')] = k
  /\ List(values', keys', 1) = <<Value(k, now, m)>>
  /\ \A j \in DOMAIN values' \ {k} : IndexOf(keys', j) < IndexOf(keys', k)

\* C4 as stated: Set of a key that is already stored, with any message, makes
\* that key the last element of keys, List(1) returns its new entry, and every
\* other stored key precedes it in the eviction order.
C4_AnyMessage ==
  [][\A k \in Keys, m \in Msgs : (Stored(k) /\ SetT(k, m)) => MovedToTail(k, m)]_vars

\* C4: Set of a key that is already stored, with a cacheable message, makes
\* that key the last element of keys, List(1) returns its new entry, and every
\* other stored key precedes it in the eviction order.
C4_MoveToTail ==
  [][\A k \in Keys, m \in Cacheable : (Stored(k) /\ SetT(k, m)) => MovedToTail(k, m)]_vars

C4_Witness ==
  /\ capacity = 3
  /\ Len(trace) = 3
  /\ trace[1].key = trace[3].key /\ trace[2].key # trace[1].key
  /\ \A i \in 1..3 : trace[i].msg \in Cacheable
  /\ trace[3].msg # trace[1].msg
  /\ keys = <<trace[2].key, trace[1].key>>
  /\ values[trace[1].key].msg = trace[3].msg

\* C5: Set with a non-cacheable message changes neither values nor keys and
\* calls the backend not at all, whether or not the key is stored and whether
\* or not the cache is full.
C5_NonCacheableDropped ==
  [][\A k \in Keys, m \in NonCacheable :
       (last'.op = "Set" /\ Set(k, m))
         => /\ values' = values
            /\ keys' = keys
            /\ calls' = <<>>
            /\ persisted' = persisted]_vars

C5_Witness ==
  /\ last.op = "Set" /\ ~last.ok
  /\ Stored(last.key)
  /\ capacity > 0 /\ Size = capacity
  /\ calls = <<>>

NoEnqueue == queue' = queue /\ sending' = sending /\ wg' = wg

\* C6: Get of a stored key at a time now <= created_at + min_ttl returns the
\* stored message with hit = true and enqueues nothing; Get of an absent key
\* returns hit = false and enqueues nothing.
C6_GetFresh ==
  [][\A k \in Keys :
       Get(k) =>
         /\ (Stored(k) /\ now <= values[k].CreatedAt + MinTTL(values[k].msg))
              => (last' = GetResult(k, TRUE, values[k].msg) /\ NoEnqueue)
         /\ ~Stored(k) => (last' = GetResult(k, FALSE, NilMsg) /\ NoEnqueue)]_vars

C6_Witness ==
  /\ last.op = "Get" /\ last.hit
  /\ Stored(last.key)
  /\ last.msg = values[last.key].msg
  /\ now > 0
  /\ now = values[last.key].CreatedAt + MinTTL(values[last.key].msg)
  /\ queue = <<>> /\ worker.pc = "idle"

Expired(k) == Stored(k) /\ now > values[k].CreatedAt + MinTTL(values[k].msg)

\* The call enqueues task and returns ret, at once or after waiting for room
\* in the channel.
Enqueued(task, ret) ==
  IF Len(queue) < QueueCap
    THEN queue' = Append(queue, task) /\ last' = ret /\ wg' = wg + 1
    ELSE /\ sending' = Append(sending, [task |-> task, ret |-> ret])
         /\ queue' = queue /\ wg' = wg + 1

SendReturns ==
  Send => /\ queue' = Append(queue, Head(sending).task)
          /\ last' = Head(sending).ret

\* C7: with prefetch disabled, Get of an expired entry returns hit = false and
\* enqueues an evict task for the key; the task, when the worker runs it,
\* removes the key from values and from keys and calls backend Evict for it.
C7_ExpiredEvicted ==
  [][/\ \A k \in Keys :
          (~prefetch /\ Expired(k) /\ Get(k))
            => Enqueued(EvictTask(k), GetResult(k, FALSE, NilMsg))
     /\ SendReturns
     /\ Take => worker'.task = Head(queue)
     /\ (Run /\ worker.task.op = "evict")
          => /\ ~(worker.task.key \in DOMAIN values')
             /\ ~(worker.task.key \in Range(keys'))
             /\ calls' = <<EvictCall(worker.task.key)>>]_vars

C7_Witness ==
  /\ ~prefetch
  /\ last = NoCall
  /\ \E k \in Keys : calls = <<EvictCall(k)>> /\ ~Stored(k) /\ k \notin Range(keys)
  /\ queue = <<>> /\ worker.pc = "idle" /\ sending = <<>> /\ wg = 0

\* C8: with prefetch enabled, Get of an expired entry returns the stale message
\* with hit = true and enqueues a refresh task; when the worker runs the task
\* with a cacheable reply of the resolver, the entry holds that reply, created
\* at the time of the refresh, and is not expired, so that Get returns the
\* reply with hit = true.
C8_ExpiredRefreshed ==
  [][/\ \A k \in Keys :
          (prefetch /\ Expired(k) /\ Get(k))
            => Enqueued(RefreshTask(k, values[k].msg), GetResult(k, TRUE, values[k].msg))
     /\ SendReturns
     /\ (Run /\ worker.task.op = "refresh" /\ worker.reply \in Cacheable)
          => /\ worker.task.key \in DOMAIN values'
             /\ values'[worker.task.key] = Value(worker.task.key, now, worker.reply)
             /\ now' <= values'[worker.task.key].CreatedAt + MinTTL(worker.reply)
     /\ \A k \in Keys :
          (Stored(k) /\ ~Expired(k) /\ Get(k)) => last' = GetResult(k, TRUE, values[k].msg)]_vars

C8_Witness ==
  /\ prefetch
  /\ last = NoCall /\ now > 0
  /\ \E k \in Keys :
       /\ calls = <<SetCall(k, Value(k, now, MsgB))>>
       /\ Stored(k) /\ values[k] = Value(k, now, MsgB)
  /\ queue = <<>> /\ worker.pc = "idle" /\ sending = <<>> /\ wg = 0

Inserted == {k \in DOMAIN values' : ~Stored(k) \/ values'[k] # values[k]}
Removed == DOMAIN values \ DOMAIN values'

\* C9: with the backend attached, every step that inserts an entry calls
\* backend Set with that key and entry, every step that removes an entry calls
\* backend Evict with that key, or backend Reset when the step is Reset, and
\* every Reset and every successful Set makes its backend call.
C9_WriteThrough ==
  [][attached =>
       /\ \A k \in Inserted : SetCall(k, values'[k]) \in Range(calls')
       /\ \A k \in Removed :
            IF Reset THEN ResetCall \in Range(calls')
            ELSE EvictCall(k) \in Range(calls')
       /\ Reset => calls' = <<ResetCall>>
       /\ \A k \in Keys, m \in Cacheable :
            (last'.op = "Set" /\ Set(k, m))
              => SetCall(k, Value(k, now, m)) \in Range(calls')]_vars

C9_Witness ==
  /\ attached /\ prefetch
  /\ worker.pc = "idle" /\ last = NoCall
  /\ \E k \in Keys : calls = <<EvictCall(k)>> /\ ~Stored(k)
  /\ Size = 1

ThreeSets ==
  /\ capacity = 2
  /\ Len(trace) = 3
  /\ DistinctCacheable(trace)

\* C10 as stated: with capacity 2, Set(k1), Set(k2), Set(k3) of distinct
\* cacheable entries leave values = {k2, k3} and the backend has received
\* Set(k1), Set(k2), Set(k3), Evict(k1) in that order.
C10_SetBeforeEvict ==
  ThreeSets =>
    /\ DOMAIN values = {trace[2].key, trace[3].key}
    /\ blog = << <<"Set", trace[1].key>>, <<"Set", trace[2].key>>,
                 <<"Set", trace[3].key>>, <<"Evict", trace[1].key>> >>

\* C10: with capacity 2, Set(k1), Set(k2), Set(k3) of distinct cacheable
\* entries leave values = {k2, k3} and the backend has received Set(k1),
\* Set(k2), Evict(k1), Set(k3) in that order: the Evict of the head precedes
\* the Set of the overflowing key.
C10_EvictBeforeSet ==
  ThreeSets =>
    /\ DOMAIN values = {trace[2].key, trace[3].key}
    /\ blog = << <<"Set", trace[1].key>>, <<"Set", trace[2].key>>,
                 <<"Evict", trace[1].key>>, <<"Set", trace[3].key>> >>

C10_Witness ==
  /\ ThreeSets
  /\ Len(blog) = 4
  /\ last.op = "Set" /\ last.key = trace[3].key
\* The state newCache returns with a capacity above 0: the only step in which
\* the backend is read.
Constructed == calls # <<>> /\ calls[1].fn = "Read"

Dropped == IF Len(trace) > capacity THEN Len(trace) - capacity ELSE 0

\* C11: construction from a persisted sequence V (held in trace) with capacity
\* C > 0 loads the newest C entries of V in their order and calls backend Evict
\* for exactly the first len(V) - C entries; when len(V) <= C all are loaded
\* and none is evicted; List(C) returns the loaded entries newest first.
C11_LoadNewest ==
  Constructed =>
    LET d == Dropped
        n == Len(trace) - d
    IN /\ keys = [i \in 1..n |-> trace[d + i].Key]
       /\ \A i \in 1..n : values[trace[d + i].Key] = trace[d + i]
       /\ Tail(calls) = [i \in 1..d |-> EvictCall(trace[i].Key)]
       /\ List(values, keys, capacity) = [i \in 1..n |-> trace[Len(trace) + 1 - i]]

\* C12: with capacity 0 the constructor calls Reset on the supplied backend and
\* does not attach it; from then on values and keys stay empty, no insert
\* succeeds, every Get misses and the supplied backend receives no call.
C12_ZeroCapacity ==
  /\ (capacity = 0 => calls = <<ResetCall>> /\ persisted = <<>>)
  /\ [](capacity = 0 =>
          /\ ~attached
          /\ values = EmptyMap /\ keys = <<>>
          /\ last.op = "Set" => ~last.ok
          /\ last.op = "Get" => ~last.hit
          /\ queue = <<>> /\ wg = 0)
  /\ [][capacity = 0 => calls' = <<>> /\ persisted' = persisted]_vars

C12_Witness ==
  /\ capacity = 0
  /\ last.op = "Set" /\ ~last.ok
  /\ calls = <<>> /\ persisted = <<>>
  /\ now > 0
Drained == wg = 0 /\ queue = <<>> /\ sending = <<>> /\ worker.pc = "idle"

\* C13: Close returns only when every task enqueued so far has finished (the
\* wait counter is zero), and Close can always come to return: as long as
\* tasks are outstanding, a step that sends, receives or executes one is
\* possible.
C13_CloseWaits ==
  /\ last.op = "Close" => Drained
  /\ wg > 0 => ENABLED Drain

\* C16: a Get call blocked in enqueue can always come to return: no state is
\* reachable in which the blocked caller, the worker and the lock wait on each
\* other.
C16_GetReturns == sending # <<>> => ENABLED Drain
\* C17: an entry leaves the cache only by Reset, by the FIFO overflow of an
\* insert (it is the head of keys and the step stores an entry), or, with
\* prefetch disabled, by the evict task enqueued for its key; with prefetch
\* enabled no step of a refresh removes the refreshed key.
C17_RemovalCauses ==
  [][\A k \in Removed :
       \/ Reset
       \/ HasCall(calls', "Set") /\ k = Head(keys)
       \/ ~prefetch /\ Run /\ worker.task = EvictTask(k)]_vars

\* C20: an evict task that the worker runs when the entry of its key is not
\* expired (the key was set again after the task was enqueued) leaves that
\* entry stored and calls no backend Evict for it.
C20_FreshEntryKept ==
  [][\A k \in Keys :
       (Stored(k) /\ ~Expired(k) /\ worker.task = EvictTask(k) /\ Run)
         => /\ k \in DOMAIN values'
            /\ values'[k] = values[k]
            /\ EvictCall(k) \notin Range(calls')]_vars

\* The worker holds the reply of the refresh of k, a Set of k was made after
\* that refresh was enqueued, k is still stored, and this step is the locked
\* part of the refresh.
RefreshLands(k) ==
  /\ blog = <<k>>
  /\ k \in Range(trace)
  /\ Stored(k)
  /\ worker.pc = "lock" /\ worker.task = RefreshTask(k, worker.task.msg)
  /\ canCache(worker.reply)
  /\ RunR

Before(ks, a, b) == IndexOf(ks, a) < IndexOf(ks, b)

\* C18 (as stated): a refresh of k that lands after a Set of k made since the
\* refresh was enqueued leaves k where that Set put it: k stands before or
\* after every other key that stays stored exactly as it did before the step.
C18_PositionKept ==
  [][\A k \in Keys :
       RefreshLands(k) =>
         /\ k \in Range(keys')
         /\ \A j \in (Range(keys) \cap Range(keys')) \ {k} :
              Before(keys', k, j) <=> Before(keys, k, j)]_vars

\* C18 (amended): such a refresh stores the reply under k and moves k to the
\* tail of keys, behind the keys inserted since the Set.
C18_RefreshMovesToTail ==
  [][\A k \in Keys :
       RefreshLands(k) =>
         /\ keys' # <<>> /\ keys'[Len(keys')] = k
         /\ values'[k] = Value(k, now, worker.reply)
         /\ \A j \in (Range(keys) \cap Range(keys')) \ {k} : Before(keys', j, k)]_vars

\* A refresh of k has just landed after Set(k), Set(j) made while it was
\* pending, and k stands behind j.
C18_Witness ==
  /\ Len(blog) = 2
  /\ Len(trace) = 2 /\ trace[1] = blog[1]
  /\ worker = Idle /\ last = NoCall
  /\ keys = <<trace[2], trace[1]>>
  /\ calls = <<SetCall(blog[1], values[blog[1]])>>

Successes == SelectSeq(mx.finished, LAMBDA f : f.ok)
AllFailed == mx.n > 0 /\ \A i \in 1..mx.n : mx.st[i] = "err"

\* C14: a multiExchange call that has returned gave the error "no addresses"
\* without querying when the address list is empty; otherwise it gave an
\* error exactly when every upstream failed, and else the reply of the
\* upstream that succeeded first, however many failed before or after it. A
\* call that has not returned can always take a step towards returning.
C14_FirstSuccess ==
  /\ mx.pc = "done" =>
       /\ mx.n = 0 => mx.ret = [reply |-> 0, err |-> NoAddresses] /\ mx.finished = <<>>
       /\ mx.n > 0 =>
            /\ (mx.ret.err # 0) <=> AllFailed
            /\ (mx.ret.err # 0) <=> (mx.ret.reply = 0)
            /\ mx.ret.err = 0 => mx.ret.reply = Successes[1].addr
            /\ mx.ret.err # 0 => mx.ret.err \in 1..mx.n
  /\ mx.pc = "range" => ENABLED NextMx

\* The call returned the reply of the second upstream to finish: the first
\* had failed, a third succeeded later.
C14_Witness ==
  /\ mx.pc = "done" /\ mx.n = 3
  /\ Len(mx.finished) = 3
  /\ ~mx.finished[1].ok /\ mx.finished[2].ok /\ mx.finished[3].ok
  /\ mx.ret = [reply |-> mx.finished[2].addr, err |-> 0]

TrailingDot(s) == s # <<>> /\ s[Len(s)] = "."
LookedUp(s) == IF TrailingDot(s) THEN [i \in 1..(Len(s) - 1) |-> s[i]] ELSE s

\* C15: under each of the modes Zero, Empty and Hosts, hijack returns a reply
\* if and only if the type of the request is A or AAAA and its name, less one
\* trailing dot, is a key of the hosts map; for any other type and for a name
\* not in the map it returns none.
C15_HijackIff ==
  (srv.req # NoReq /\ srv.hijackMode \in {HijackZero, HijackEmpty, HijackHosts}) =>
    ((srv.out # NoReply) <=>
       (srv.req.Type \in {TypeA, TypeAAAA} /\ LookedUp(srv.req.Name) \in DOMAIN srv.hosts))

\* In mode Hosts an AAAA request for "a." was answered, with no address, from
\* a map that holds "a" with an IPv4 address only and does not hold "a.".
C15_Witness ==
  /\ srv.hijackMode = HijackHosts
  /\ srv.req = [Type |-> TypeAAAA, Name |-> <<"a", ".">>]
  /\ DOMAIN srv.hosts = {<<"a">>} /\ srv.hosts[<<"a">>] = <<Ip4>>
  /\ srv.out = ReplyAAAA(<<"a", ".">>, <<>>)

Closing == \E c \in Callers : srv[c] \in {"close1", "close2", "proxy"}
Stopped == srv.rs = "stopped" /\ srv.rh \in {"none", "stopped"}

\* C19: a Close call in progress can always come to return, and once a Close
\* has returned both goroutines have stopped or can stop: in either case a
\* send, a receive on done or the return of Close is possible.
C19_CloseReturns ==
  /\ Closing => ENABLED Shutdown
  /\ (srv.closed /\ ~Closing) => (Stopped \/ ENABLED Shutdown)

PersistedKeys == {persisted[i].Key : i \in 1..Len(persisted)}
Quiescent == wg = 0 /\ sending = <<>>

\* C21: with the supplied backend attached (capacity above zero), in every
\* state with no task outstanding, right after construction from any
\* persisted sequence and after any later Set, Reset and executed tasks, the
\* keys held by the backend are the keys held in memory.
C21_BackendMatchesMemory ==
  (attached /\ capacity > 0 /\ Quiescent) => PersistedKeys = DOMAIN values

SetOf(k) == last'.op = "Set" /\ last'.key = k /\ \E m \in Msgs : Set(k, m)
RefreshOf(k) ==
  worker.pc = "lock" /\ worker.task = RefreshTask(k, worker.task.msg) /\ Run

\* C22: a Set or a refresh of a key that is already stored leaves the set of
\* stored keys, and so the size of the cache, as it was and sends no Evict to
\* the backend, whether or not the cache is full.
C22_UpdateKeepsOthers ==
  [][\A k \in Keys :
       (Stored(k) /\ (SetOf(k) \/ RefreshOf(k)))
         => /\ DOMAIN values' = DOMAIN values
            /\ ~HasCall(calls', "Evict")]_vars
====
